---- MODULE Spec2Model ----
(***************************************************************************)
(* Model of plugandplay-react-query-hooks: the Axios client factory of     *)
(* src/api/index.ts (token injection, 401 refresh/retry interceptor), the  *)
(* token context of src/context/AppContext.tsx and the request hooks of    *)
(* src/hooks/index.ts (the hooks that take a configuration object).        *)
(*                                                                         *)
(* A string is the sequence of its pieces: the literals of the code        *)
(* ("Bearer ", "refreshed_", "_"), the letters of the tokens and the       *)
(* decimal digits.  No piece is a prefix of another, so two sequences are  *)
(* equal exactly when the strings are, and a template literal is a         *)
(* concatenation.  A nullable or optional value is a record                *)
(* [present, value].                                                       *)
(***************************************************************************)
EXTENDS Integers, Sequences, FiniteSets, TLC

\* ------------------------------------------------------------------ bounds
MaxClients == 2

MaxRequests == 2

MaxAppRequests == 1

MaxClock == 1

\* --------------------------------------------------------------- strings
None == [present |-> FALSE, value |-> <<>>]

Some(v) == [present |-> TRUE, value |-> v]

EmptyString == <<>>

TokenStrings == {<<>>, <<"a">>}

\* the values a caller can hand to Providers / setToken: a string or null
TokenValues == {None} \cup {Some(s) : s \in TokenStrings}

BearerPrefix == <<"Bearer ">>

RefreshedPrefix == <<"refreshed_">>

Digit(d) == CASE d = 0 -> "0" [] d = 1 -> "1" [] d = 2 -> "2" [] d = 3 -> "3"
              [] d = 4 -> "4" [] d = 5 -> "5" [] d = 6 -> "6" [] d = 7 -> "7"
              [] d = 8 -> "8" [] d = 9 -> "9"

RECURSIVE Decimal(_)
\* Number-to-string conversion of a template literal (${Date.now()})
Decimal(n) == IF n < 10 THEN <<Digit(n)>> ELSE Decimal(n \div 10) \o <<Digit(n % 10)>>

\* JavaScript truthiness of a nullable string: null and "" are falsy
Truthy(t) == t.present /\ t.value # EmptyString

\* token || ""
OrEmpty(t) == IF Truthy(t) THEN t.value ELSE EmptyString

\* initialToken || null
OrNull(t) == IF Truthy(t) THEN t ELSE None

\* ------------------------------------------------------------------ state
VARIABLES
  token,          \* AppContextProvider: useState token (nullable string)
  refreshToken,   \* Providers prop refreshToken
  bearer,         \* Providers prop bearer
  clients,        \* the Axios instances built by createApiClient, in order
  requests,       \* the requests issued by callers, in order
  clock,          \* the last reading of Date.now(); readings never decrease
  loggedOut       \* logout() was called and no token was set since

vars == <<token, refreshToken, bearer, clients, requests, clock, loggedOut>>

\* one effect of the program on a request: what happened, and with what value
Event(op, val) == [op |-> op, val |-> val]

\* the events of a log with operation op, in order
Select(l, op) == SelectSeq(l, LAMBDA e : e.op = op)

\* the sends of request r over the wire, in order
Sends(r) == Select(requests[r].log, "send")

\* ------------------------------------------------------- src/api/index.ts
\* axios.create({ baseURL, headers }): the configuration of the instance
AxiosCreate == [baseURL |-> "baseUrl", headers |-> "Content-Type: application/json"]

\* createApiClient: the closure state of one Axios instance
\* (tokenArg keeps the token argument; refreshes counts the refreshes done;
\* factory names the function that attached the interceptors)
createApiClient(tok, enableRefreshToken, useBearer) ==
  [factory |-> "createApiClient",
   token |-> tok, enableRefreshToken |-> enableRefreshToken, bearer |-> useBearer,
   isRefreshing |-> FALSE, failedQueue |-> <<>>, tokenArg |-> tok, refreshes |-> 0]

\* createUnauthenticatedApiClient(baseUrl): an instance that holds no token,
\* no flag and no queue
createUnauthenticatedApiClient == [factory |-> "createUnauthenticatedApiClient"]

\* a request interceptor that keeps an Authorization header the config
\* already has
RequestInterceptor_KeepsHeader(client, authorization) ==
  IF authorization.present THEN authorization
  ELSE IF client.token # EmptyString
    THEN Some(IF client.bearer THEN BearerPrefix \o client.token ELSE client.token)
    ELSE authorization

\* a request interceptor that prefixes the token whatever the bearer flag is
RequestInterceptor_AlwaysBearer(client, authorization) ==
  IF client.token # EmptyString
    THEN Some(BearerPrefix \o client.token)
    ELSE authorization

\* the request interceptor: the Authorization header of the outgoing config
RequestInterceptor(client, authorization) ==
  IF client.token # EmptyString
    THEN Some(IF client.bearer THEN BearerPrefix \o client.token ELSE client.token)
    ELSE authorization

\* a request interceptor that sends the token of the context
UnauthenticatedRequestInterceptor_ContextToken(authorization) ==
  IF Truthy(token) THEN Some(token.value) ELSE authorization

\* the request interceptor of createUnauthenticatedApiClient: return config
UnauthenticatedRequestInterceptor(authorization) == authorization

\* `refreshed_${token}_${Date.now()}`
NewToken(tok, now) == RefreshedPrefix \o tok \o <<"_">> \o Decimal(now)

\* apiClient(config): the config goes through the request interceptor and
\* the request onto the wire
Send(req, client, authorization) ==
  LET sent == IF client.factory = "createApiClient"
                THEN RequestInterceptor(client, authorization)
                ELSE UnauthenticatedRequestInterceptor(authorization)
  IN [req EXCEPT !.state = "pending", !.authorization = sent,
                 !.log = Append(@, Event("send", sent))]

\* processQueue(error, token): the continuation of every waiter, in queue
\* order; a resolved waiter re-sends its request with the new token, a
\* rejected one rejects its caller with the error
RECURSIVE processQueue(_, _, _, _, _)
processQueue(reqs, queue, error, tok, client) ==
  IF queue = <<>> THEN reqs
  ELSE LET w == queue[1]
           called == [reqs[w] EXCEPT !.log = Append(@,
                        IF error.present THEN Event("waiter_reject", error.value)
                                         ELSE Event("waiter_resolve", tok))]
           settled == IF error.present
                        THEN [called EXCEPT !.state = "rejected", !.result = error,
                                            !.log = Append(@, Event("reject", error.value))]
                        ELSE Send(called, client, Some(BearerPrefix \o tok))
       IN processQueue([reqs EXCEPT ![w] = settled], Tail(queue), error, tok, client)

\* ----------------------------------------------------- src/hooks/index.ts
\* invalidateQueryKey?: string | string[]
Undefined == [type |-> "undefined", value |-> <<>>]

KeyString(s) == [type |-> "string", value |-> s]

KeyArray(a) == [type |-> "array", value |-> a]

\* options = {} : no property; the caller's options with an onSuccess property
NoOptions == [p \in {} |-> "none"]

WithOnSuccess == [onSuccess |-> "options.onSuccess"]

\* axiosConfig?: any : no property; the caller's config with a timeout
NoAxiosConfig == [p \in {} |-> "none"]

WithTimeout == [timeout |-> "5000"]

\* { ...a, ...b }: the properties of b override those of a
Spread(a, b) == b @@ a

\* the options object handed to useMutation
useMutationOptions(options) ==
  Spread([mutationFn |-> "mutationFn", onSuccess |-> "hook.onSuccess"], options)

\* if (invalidateQueryKey): undefined and "" are falsy, every array is truthy
KeyTruthy(k) == \/ k.type = "array"
                \/ k.type = "string" /\ k.value # EmptyString

\* the invalidateQueries calls of the hook's own onSuccess, in order
InvalidateEvents(k) ==
  IF ~KeyTruthy(k) THEN <<>>
  ELSE IF k.type = "array"
    THEN [i \in 1..Len(k.value) |-> Event("invalidate", k.value[i])]
    ELSE <<Event("invalidate", k.value)>>

\* the endpoint of the hook
Endpoint == <<"/endpoint">>

\* what the mutation runs when mutationFn resolves: the onSuccess property of
\* the options object handed to useMutation (useUnauthenticatedPostData
\* invalidates its endpoint, the other hooks the caller's keys)
onSuccess(hook) ==
  IF hook.kind = "get" THEN <<>>
  ELSE IF useMutationOptions(hook.options).onSuccess = "hook.onSuccess"
    THEN (IF hook.kind = "unauthenticatedPost"
            THEN <<Event("invalidate", Endpoint)>>
            ELSE InvalidateEvents(hook.invalidateQueryKey))
         \o (IF "onSuccess" \in DOMAIN hook.options
               THEN <<Event("options.onSuccess", <<>>)>> ELSE <<>>)
    ELSE <<Event("options.onSuccess", <<>>)>>

\* the config argument of apiClient.get(endpoint, { params: query }),
\* apiClient.post(endpoint, data), apiClient.put(endpoint, data) and
\* apiClient.delete(endpoint)
CallConfig(kind) == IF kind = "get" THEN [params |-> "query"] ELSE NoAxiosConfig

\* the config of the request a hook sends: the call's config merged over the
\* configuration of the instance
RequestConfig(hook) == Spread(AxiosCreate, CallConfig(hook.kind))

\* the body shared by the hooks: read the context, build the client
\* (current: built by the latest render of its component).  createApiClient
\* has four parameters: the axiosConfig the mutation hooks pass as a fifth
\* argument is bound to none of them.
Hook(kind, invalidateQueryKey, axiosConfig, options, tok, refresh, useBearer) ==
  [kind |-> kind, invalidateQueryKey |-> invalidateQueryKey,
   axiosConfig |-> axiosConfig, options |-> options, current |-> TRUE]
  @@ createApiClient(OrEmpty(tok), refresh, useBearer)

\* the body of useUnauthenticatedPostData: it reads no context;
\* createUnauthenticatedApiClient has one parameter, the axiosConfig passed
\* as a second argument is bound to none
UnauthenticatedHook(axiosConfig, options) ==
  [kind |-> "unauthenticatedPost", axiosConfig |-> axiosConfig, options |-> options,
   current |-> TRUE]
  @@ createUnauthenticatedApiClient

\* ------------------------------------------------------------ type sets
Statuses == {401, 500}

Init ==
  /\ \E initialToken \in TokenValues : token = OrNull(initialToken)
  /\ refreshToken \in BOOLEAN
  /\ bearer \in BOOLEAN
  /\ clients = <<>>
  /\ requests = <<>>
  /\ clock = 0
  /\ loggedOut = FALSE

\* ------------------------------------------- src/context/AppContext.tsx
\* setTokenState: a changed token re-renders the consumers, so the clients
\* built from the old token are no longer the ones the hooks call
setTokenState(newToken) ==
  /\ token' = newToken
  /\ clients' = IF newToken = token THEN clients
                ELSE [c \in 1..Len(clients) |-> [clients[c] EXCEPT !.current = FALSE]]

setToken(newToken) ==
  /\ setTokenState(newToken)
  /\ loggedOut' = FALSE
  /\ UNCHANGED <<refreshToken, bearer, requests, clock>>

login(newToken) ==
  /\ setTokenState(Some(newToken))
  /\ loggedOut' = FALSE
  /\ UNCHANGED <<refreshToken, bearer, requests, clock>>

logout ==
  /\ setTokenState(None)
  /\ loggedOut' = TRUE
  /\ UNCHANGED <<refreshToken, bearer, requests, clock>>

\* a flag that is true for every token that is not null
isAuthenticated_NotNull == token.present

\* const isAuthenticated = !!token
isAuthenticated == Truthy(token)

\* ------------------------------------------------------------- clients
\* a component renders its hook once, and again after the context changed
MayRender ==
  /\ Len(clients) < MaxClients
  /\ \A c \in 1..Len(clients) : ~clients[c].current

useGetData ==
  /\ MayRender
  /\ clients' = Append(clients, Hook("get", Undefined, NoAxiosConfig, NoOptions, token, refreshToken, bearer))
  /\ UNCHANGED <<token, refreshToken, bearer, requests, clock, loggedOut>>

\* one more component renders useGetData: every call of the hook builds a
\* client of its own
useGetDataInComponent ==
  /\ Len(clients) < MaxClients
  /\ clients' = Append(clients,
       Hook("get", Undefined, NoAxiosConfig, NoOptions, token, refreshToken, bearer))
  /\ UNCHANGED <<token, refreshToken, bearer, requests, clock, loggedOut>>

\* the invalidateQueryKey values callers supply
InvalidationKeys ==
  {Undefined, KeyString(EmptyString), KeyString(<<"u">>), KeyArray(<<>>),
   KeyArray(<< <<"u">>, <<"v">> >>)}

OptionsValues == {NoOptions, WithOnSuccess}

AxiosConfigs == {NoAxiosConfig, WithTimeout}

usePostData(invalidateQueryKey, axiosConfig, options) ==
  /\ MayRender
  /\ clients' = Append(clients,
       Hook("post", invalidateQueryKey, axiosConfig, options, token, refreshToken,
            bearer))
  /\ UNCHANGED <<token, refreshToken, bearer, requests, clock, loggedOut>>

usePutData(invalidateQueryKey, axiosConfig, options) ==
  /\ MayRender
  /\ clients' = Append(clients,
       Hook("put", invalidateQueryKey, axiosConfig, options, token, refreshToken,
            bearer))
  /\ UNCHANGED <<token, refreshToken, bearer, requests, clock, loggedOut>>

useDeleteData(invalidateQueryKey, axiosConfig, options) ==
  /\ MayRender
  /\ clients' = Append(clients,
       Hook("delete", invalidateQueryKey, axiosConfig, options, token, refreshToken,
            bearer))
  /\ UNCHANGED <<token, refreshToken, bearer, requests, clock, loggedOut>>

useUnauthenticatedPostData(axiosConfig, options) ==
  /\ MayRender
  /\ clients' = Append(clients, UnauthenticatedHook(axiosConfig, options))
  /\ UNCHANGED <<token, refreshToken, bearer, requests, clock, loggedOut>>

\* fetchData / postData / putData / deleteData: the caller's request goes
\* through apiClient.get / post / put / delete (endpoint); max bounds the
\* number of requests of a run
Issue(c, max) ==
  /\ Len(requests) < max
  /\ clients[c].current
  /\ requests' = Append(requests,
       Send([client |-> c, config |-> RequestConfig(clients[c]), retry |-> FALSE,
             state |-> "new", authorization |-> None, result |-> None, log |-> <<>>],
            clients[c], None))
  /\ UNCHANGED <<token, refreshToken, bearer, clients, clock, loggedOut>>

Request(c) == Issue(c, MaxRequests)

AppRequest(c) == Issue(c, MaxAppRequests)

\* a 2xx response: the response interceptor hands it on, the caller resolves
\* and the mutation runs its onSuccess
ResponseSuccess(r) ==
  /\ requests[r].state = "pending"
  /\ LET response == [kind |-> "response", status |-> 200, req |-> r,
                      attempt |-> Len(Sends(r))]
     IN requests' = [requests EXCEPT
          ![r].state = "fulfilled",
          ![r].result = Some(response),
          ![r].log = @ \o <<Event("resolve", response)>>
                       \o onSuccess(clients[requests[r].client])]
  /\ UNCHANGED <<token, refreshToken, bearer, clients, clock, loggedOut>>

\* a rejection that hands the caller of a re-sent request a refresh failure in
\* place of the error received
Reject_AsRefreshError(reqs, r, error) ==
  LET e == IF reqs[r].retry
             THEN [kind |-> "refresh_error", status |-> 0, req |-> r, attempt |-> 0]
             ELSE error
  IN /\ requests' = [reqs EXCEPT ![r].state = "rejected", ![r].result = Some(e),
                                  ![r].log = Append(@, Event("reject", e))]
     /\ UNCHANGED <<clients, clock>>

\* Promise.reject(error) to the caller of request r
Reject(reqs, r, error) ==
  /\ requests' = [reqs EXCEPT ![r].state = "rejected", ![r].result = Some(error),
                              ![r].log = Append(@, Event("reject", error))]
  /\ UNCHANGED <<clients, clock>>

\* a guard that takes every error of a request not yet retried for a 401
ShouldRefresh_AnyStatus(error, req) == ~req.retry

\* a guard that forgets the _retry mark
ShouldRefresh_NoRetryGuard(error, req) == error.status = 401

\* error.response?.status === 401 && !originalRequest._retry
ShouldRefresh(error, req) == error.status = 401 /\ ~req.retry

\* a response error interceptor that starts a refresh without looking at the
\* flag and hands control back before the refresh has settled
ResponseErrorInterceptor_Overlapping(reqs, r, c, error) ==
  IF ShouldRefresh(error, reqs[r])
    THEN \E now \in clock..MaxClock :
      /\ clock' = now
      /\ clients' = [clients EXCEPT ![c].isRefreshing = TRUE, ![c].refreshes = @ + 1]
      /\ requests' = [reqs EXCEPT ![r].retry = TRUE, ![r].state = "refreshing",
            ![r].log = @ \o <<Event("retry_mark", <<>>),
                              Event("refresh", NewToken(clients[c].token, now))>>]
    ELSE Reject(reqs, r, error)

\* a response error interceptor that does not reset the flag when the refresh
\* has settled
ResponseErrorInterceptor_FlagLeftSet(reqs, r, c, error) ==
  IF ShouldRefresh(error, reqs[r])
    THEN IF clients[c].isRefreshing
      THEN /\ clients' = [clients EXCEPT ![c].failedQueue = Append(@, r)]
           /\ requests' = [reqs EXCEPT ![r].state = "queued",
                                       ![r].log = Append(@, Event("enqueue", <<>>))]
           /\ UNCHANGED clock
      ELSE \E now \in clock..MaxClock :
        LET newToken == NewToken(clients[c].token, now)
            refreshed == [clients[c] EXCEPT !.token = newToken, !.isRefreshing = TRUE,
                                            !.refreshes = @ + 1]
        IN /\ clock' = now
           /\ clients' = [clients EXCEPT ![c] = refreshed]
           /\ requests' = [reqs EXCEPT ![r] =
                 Send([@ EXCEPT !.retry = TRUE,
                                !.log = @ \o <<Event("retry_mark", <<>>),
                                               Event("refresh", newToken)>>],
                      refreshed, Some(BearerPrefix \o newToken))]
    ELSE Reject(reqs, r, error)

\* a response error interceptor whose token is one variable shared by every
\* client
ResponseErrorInterceptor_SharedToken(reqs, r, c, error) ==
  IF ShouldRefresh(error, reqs[r])
    THEN \E now \in clock..MaxClock :
      LET newToken == NewToken(clients[c].token, now)
          refreshed == [clients[c] EXCEPT !.token = newToken, !.refreshes = @ + 1]
      IN /\ clock' = now
         /\ clients' = [k \in 1..Len(clients) |->
               IF k = c THEN refreshed ELSE [clients[k] EXCEPT !.token = newToken]]
         /\ requests' = [reqs EXCEPT ![r] =
               Send([@ EXCEPT !.retry = TRUE,
                              !.log = @ \o <<Event("retry_mark", <<>>),
                                             Event("refresh", newToken)>>],
                    refreshed, Some(BearerPrefix \o newToken))]
    ELSE Reject(reqs, r, error)

\* the response error interceptor of a client with enableRefreshToken.  The
\* handler awaits nothing: from isRefreshing = true to isRefreshing = false it
\* runs as one step.  No statement of its try block throws, and the promise of
\* the re-sent request is returned without await, so the catch block is never
\* entered.
ResponseErrorInterceptor(reqs, r, c, error) ==
  IF ShouldRefresh(error, reqs[r])
    THEN IF clients[c].isRefreshing
      THEN \* queue the request until the refresh in flight settles
        /\ clients' = [clients EXCEPT ![c].failedQueue = Append(@, r)]
        /\ requests' = [reqs EXCEPT ![r].state = "queued",
                                    ![r].log = Append(@, Event("enqueue", <<>>))]
        /\ UNCHANGED clock
      ELSE \E now \in clock..MaxClock :
        LET newToken == NewToken(clients[c].token, now)
            refreshed == [clients[c] EXCEPT !.token = newToken, !.isRefreshing = TRUE,
                                            !.refreshes = @ + 1]
            marked == [reqs EXCEPT ![r].retry = TRUE,
                          ![r].log = @ \o <<Event("retry_mark", <<>>),
                                            Event("refresh", newToken)>>]
            drained == processQueue(marked, clients[c].failedQueue, None, newToken,
                                    refreshed)
        IN /\ clock' = now
           /\ clients' = [clients EXCEPT ![c] =
                 [refreshed EXCEPT !.failedQueue = <<>>, !.isRefreshing = FALSE]]
           /\ requests' = [drained EXCEPT ![r] =
                 Send(@, refreshed, Some(BearerPrefix \o newToken))]
    ELSE Reject(reqs, r, error)

\* a client that attaches the refresh interceptor whatever the flag is
ResponseInterceptors_Always(reqs, r, c, error) ==
  ResponseErrorInterceptor(reqs, r, c, error)

\* if (enableRefreshToken) { ... interceptors.response.use(...) }: without the
\* interceptor the error goes to the caller as it is
ResponseInterceptors(reqs, r, c, error) ==
  IF clients[c].enableRefreshToken
    THEN ResponseErrorInterceptor(reqs, r, c, error)
    ELSE Reject(reqs, r, error)

\* the response error interceptor of createUnauthenticatedApiClient
UnauthenticatedResponseInterceptors(reqs, r, error) == Reject(reqs, r, error)

\* an error response whose refresh also stores the new token in the context
ResponseError_UpdatesAuthState(r, status) ==
  /\ requests[r].state = "pending"
  /\ LET error == [kind |-> "error", status |-> status, req |-> r,
                   attempt |-> Len(Sends(r))]
         received == [requests EXCEPT ![r].log = Append(@, Event("error", error))]
     IN ResponseInterceptors(received, r, requests[r].client, error)
  /\ token' = IF clients'[requests[r].client].token # clients[requests[r].client].token
                THEN Some(clients'[requests[r].client].token)
                ELSE token
  /\ UNCHANGED <<refreshToken, bearer, loggedOut>>

\* an error response for request r
ResponseError(r, status) ==
  /\ requests[r].state = "pending"
  /\ LET error == [kind |-> "error", status |-> status, req |-> r,
                   attempt |-> Len(Sends(r))]
         received == [requests EXCEPT ![r].log = Append(@, Event("error", error))]
     IN IF clients[requests[r].client].factory = "createApiClient"
          THEN ResponseInterceptors(received, r, requests[r].client, error)
          ELSE UnauthenticatedResponseInterceptors(received, r, error)
  /\ UNCHANGED <<token, refreshToken, bearer, loggedOut>>

\* the application: the context, the hooks that render, their requests
Next ==
  \/ \E v \in TokenValues : setToken(v)
  \/ \E s \in TokenStrings : login(s)
  \/ logout
  \/ useGetData
  \/ \E c \in 1..Len(clients) : AppRequest(c)
  \/ \E r \in 1..Len(requests) : ResponseSuccess(r)
  \/ \E r \in 1..Len(requests), s \in Statuses : ResponseError(r, s)

Spec == Init /\ [][Next]_vars

\* one client under a context that does not change: its concurrent requests
NextClient ==
  \/ useGetData
  \/ \E c \in 1..Len(clients) : Request(c)
  \/ \E r \in 1..Len(requests) : ResponseSuccess(r)
  \/ \E r \in 1..Len(requests), s \in Statuses : ResponseError(r, s)

SpecClient == Init /\ [][NextClient]_vars

\* the server answers request r
Respond(r) ==
  /\ r <= Len(requests)
  /\ \/ ResponseSuccess(r)
     \/ \E s \in Statuses : ResponseError(r, s)

\* one client whose every send is answered in the end
SpecClientFair ==
  /\ Init
  /\ [][NextClient]_vars
  /\ \A r \in 1..MaxRequests : WF_vars(Respond(r))

\* several components, each with a client of its own, and their requests
NextComponents ==
  \/ useGetDataInComponent
  \/ \E c \in 1..Len(clients) : Request(c)
  \/ \E r \in 1..Len(requests) : ResponseSuccess(r)
  \/ \E r \in 1..Len(requests), s \in Statuses : ResponseError(r, s)

SpecComponents == Init /\ [][NextComponents]_vars

\* the mutation hooks: their requests, and what runs when one succeeds
NextHooks ==
  \/ \E k \in InvalidationKeys, a \in AxiosConfigs, o \in OptionsValues :
       usePostData(k, a, o)
  \/ \E k \in InvalidationKeys, a \in AxiosConfigs, o \in OptionsValues :
       usePutData(k, a, o)
  \/ \E k \in InvalidationKeys, a \in AxiosConfigs, o \in OptionsValues :
       useDeleteData(k, a, o)
  \/ \E a \in AxiosConfigs, o \in OptionsValues : useUnauthenticatedPostData(a, o)
  \/ \E c \in 1..Len(clients) : AppRequest(c)
  \/ \E r \in 1..Len(requests) : ResponseSuccess(r)
  \/ \E r \in 1..Len(requests), s \in Statuses : ResponseError(r, s)

SpecHooks == Init /\ [][NextHooks]_vars

\* a login page: useUnauthenticatedPostData under a context whose token changes
NextLogin ==
  \/ \E v \in TokenValues : setToken(v)
  \/ \E s \in TokenStrings : login(s)
  \/ logout
  \/ \E a \in AxiosConfigs, o \in OptionsValues : useUnauthenticatedPostData(a, o)
  \/ \E c \in 1..Len(clients) : AppRequest(c)
  \/ \E r \in 1..Len(requests) : ResponseSuccess(r)
  \/ \E r \in 1..Len(requests), s \in Statuses : ResponseError(r, s)

SpecLogin == Init /\ [][NextLogin]_vars

\* ------------------------------------------------------------- claims
Requests == 1..Len(requests)

ClientOf(r) == clients[requests[r].client]

LastSend(r) == Sends(r)[Len(Sends(r))]

\* request r went onto the wire in this step
SentInStep(r) ==
  \/ r > Len(requests)
  \/ r <= Len(requests) /\ Len(Sends(r)') > Len(Sends(r))

\* the header the claims expect for token t and bearer flag b
HeaderFor(h, t, b) ==
  /\ (h = Some(BearerPrefix \o t)) <=> (b /\ t # EmptyString)
  /\ (h = Some(t)) <=> (~b /\ t # EmptyString)
  /\ (~h.present) <=> (t = EmptyString)

\* C1 (as stated): every request sent through a client built with token T and
\* bearer flag B carries "Bearer T" iff B and T is non-empty, T iff not B and T
\* is non-empty, and no Authorization header iff T is empty.
C1_HeaderFromBuildToken ==
  \A r \in Requests : \A i \in 1..Len(Sends(r)) :
    HeaderFor(Sends(r)[i].val, ClientOf(r).tokenArg, ClientOf(r).bearer)

\* C1 (amended): every request sent through a client carries the header made
\* from the token K the client holds when the request is sent (the build token
\* until a refresh replaces it): "Bearer K" iff the bearer flag is set and K is
\* non-empty, K iff the flag is not set and K is non-empty, none iff K is empty.
C1_HeaderFromCurrentToken ==
  [][\A r \in 1..Len(requests') :
       SentInStep(r) =>
         HeaderFor(LastSend(r)'.val, clients'[requests'[r].client].token,
                   clients'[requests'[r].client].bearer)]_vars

\* a request re-sent after a refresh carries the refreshed token, and one sent
\* through a client without a token carries no header
C1_Witness ==
  /\ \E r \in Requests :
       /\ Len(Sends(r)) = 2
       /\ ClientOf(r).token # ClientOf(r).tokenArg
       /\ Sends(r)[2].val \in {Some(BearerPrefix \o ClientOf(r).token),
                               Some(ClientOf(r).token)}
  /\ \E r \in Requests : ~Sends(r)[1].val.present

\* C2: on a client built without enableRefreshToken, a request whose response
\* is an error (401 or any other) is rejected to its caller with that same
\* error; no refresh is started, no waiter is queued, the request is not
\* re-sent.
C2_NoRefreshWhenDisabled ==
  \A r \in Requests :
    ~ClientOf(r).enableRefreshToken =>
      LET l == requests[r].log
      IN /\ Len(Sends(r)) = 1
         /\ Select(l, "refresh") = <<>>
         /\ Select(l, "enqueue") = <<>>
         /\ ClientOf(r).refreshes = 0
         /\ ClientOf(r).failedQueue = <<>>
         /\ ClientOf(r).token = ClientOf(r).tokenArg
         /\ \A i \in 1..Len(l) :
              l[i].op = "error" =>
                /\ i + 1 = Len(l)
                /\ l[i + 1] = Event("reject", l[i].val)
                /\ requests[r].state = "rejected"
                /\ requests[r].result = Some(l[i].val)

\* a 401 was received on a client without refresh and went to the caller
C2_Witness ==
  \E r \in Requests :
    /\ ~ClientOf(r).enableRefreshToken
    /\ requests[r].state = "rejected"
    /\ requests[r].result.value.status = 401

\* C3: on a client with refresh enabled, a request not yet marked retried that
\* receives a 401 is marked retried, then exactly one refresh is started, then
\* the request is re-sent exactly once with the new token.
C3_OneRefreshOneRetry ==
  \A r \in Requests :
    ClientOf(r).enableRefreshToken =>
      LET l == requests[r].log
      IN /\ Len(Sends(r)) <= 2
         /\ Len(Select(l, "refresh")) <= 1
         /\ \A i \in 1..Len(l) :
              (l[i].op = "error" /\ l[i].val.status = 401 /\ l[i].val.attempt = 1) =>
                /\ Len(l) >= i + 3
                /\ l[i + 1].op = "retry_mark"
                /\ l[i + 2].op = "refresh"
                /\ l[i + 3].op = "send"
                /\ l[i + 3].val \in {Some(BearerPrefix \o l[i + 2].val),
                                     Some(l[i + 2].val)}
                /\ requests[r].retry
                /\ Len(Sends(r)) = 2
                /\ Len(Select(l, "refresh")) = 1

\* a request was re-sent after its 401 and then answered
C3_Witness ==
  \E r \in Requests :
    /\ ClientOf(r).enableRefreshToken
    /\ requests[r].retry
    /\ Len(Sends(r)) = 2
    /\ requests[r].state \in {"fulfilled", "rejected"}

\* the first answer to request r was a 401
FirstAnswer401(r) ==
  /\ Len(requests[r].log) >= 2
  /\ requests[r].log[2].op = "error"
  /\ requests[r].log[2].val.status = 401

\* r1 and r2 were in flight together on one client before either was answered:
\* both first sends carry the header made from the same token, and every
\* refresh replaces the token by a longer one
Concurrent401(r1, r2) ==
  /\ r1 # r2
  /\ requests[r1].client = requests[r2].client
  /\ ClientOf(r1).enableRefreshToken
  /\ Sends(r1)[1].val.present
  /\ Sends(r1)[1].val = Sends(r2)[1].val
  /\ FirstAnswer401(r1)
  /\ FirstAnswer401(r2)

KeysOf(k) ==
  CASE k.type = "array" -> k.value
    [] k.type = "string" -> <<k.value>>
    [] k.type = "undefined" -> <<>>

Invalidated(r) ==
  LET inv == Select(requests[r].log, "invalidate")
  IN [i \in 1..Len(inv) |-> inv[i].val]

\* what ran after the caller of r resolved
AfterResolve(r) ==
  LET l == requests[r].log
      at == CHOOSE i \in 1..Len(l) : l[i].op = "resolve"
  IN SubSeq(l, at + 1, Len(l))

IsMutation(r) == ClientOf(r).kind \in {"post", "put", "delete"}

\* C7: one successful mutation of usePostData, usePutData or useDeleteData
\* invalidates exactly the keys of the caller's invalidateQueryKey (a string
\* counts as one key), in the order given, once each, and no other key;
\* without invalidateQueryKey nothing is invalidated.
C7_InvalidatesExactlyTheKeys ==
  \A r \in Requests :
    (/\ IsMutation(r)
     /\ requests[r].state = "fulfilled"
     /\ ClientOf(r).invalidateQueryKey # KeyString(EmptyString)) =>
      Invalidated(r) = KeysOf(ClientOf(r).invalidateQueryKey)

\* C8: with both invalidateQueryKey and options.onSuccess supplied, a
\* successful mutation first invalidates every supplied key and then calls
\* options.onSuccess exactly once.
C8_InvalidateThenOnSuccess ==
  \A r \in Requests :
    (/\ IsMutation(r)
     /\ requests[r].state = "fulfilled"
     /\ "onSuccess" \in DOMAIN ClientOf(r).options
     /\ KeyTruthy(ClientOf(r).invalidateQueryKey)
     /\ KeysOf(ClientOf(r).invalidateQueryKey) # <<>>) =>
      AfterResolve(r) =
        [i \in 1..Len(KeysOf(ClientOf(r).invalidateQueryKey)) |->
           Event("invalidate", KeysOf(ClientOf(r).invalidateQueryKey)[i])]
        \o <<Event("options.onSuccess", <<>>)>>

\* C9: after logout(), isAuthenticated is false and every request sent (a
\* retry of a request in flight at the logout included) carries no
\* Authorization header, until login or setToken supplies a token.
C9_NoHeaderAfterLogout ==
  [][loggedOut' =>
       /\ ~isAuthenticated'
       /\ \A r \in 1..Len(requests') :
            SentInStep(r) => ~LastSend(r)'.val.present]_vars

\* C10: with refresh enabled, an error whose status is not 401, and a 401
\* answering a request already re-sent after a refresh, is rejected to the
\* caller as it is: the request is not queued and starts no refresh.
C10_OtherErrorsRejectedUnmodified ==
  \A r \in Requests :
    ClientOf(r).enableRefreshToken =>
      LET l == requests[r].log
      IN \A i \in 1..Len(l) :
           (l[i].op = "error" /\ (l[i].val.status # 401 \/ l[i].val.attempt >= 2)) =>
             /\ i + 1 = Len(l)
             /\ l[i + 1] = Event("reject", l[i].val)
             /\ requests[r].state = "rejected"
             /\ requests[r].result = Some(l[i].val)
             /\ Len(Select(l, "enqueue")) = 0
             /\ Len(Select(l, "refresh")) = l[i].val.attempt - 1
             /\ \A q \in 1..Len(ClientOf(r).failedQueue) : ClientOf(r).failedQueue[q] # r

\* a re-sent request was answered 401 and another request was answered 500,
\* both on a client with refresh enabled
C10_Witness ==
  /\ \E r \in Requests :
       /\ ClientOf(r).enableRefreshToken
       /\ requests[r].state = "rejected"
       /\ requests[r].result.value.status = 401
       /\ requests[r].result.value.attempt = 2
  /\ \E r \in Requests :
       /\ ClientOf(r).enableRefreshToken
       /\ requests[r].state = "rejected"
       /\ requests[r].result.value.status = 500

\* C11: every request issued by a caller goes onto the wire at most twice (its
\* first send and at most one re-send after a refresh), whatever the order of
\* the 401 answers and the refreshes of its client.
C11_AtMostTwoSends ==
  \A r \in Requests :
    /\ Len(Sends(r)) \in {1, 2}
    /\ Len(Sends(r)) = 2 =>
         /\ requests[r].retry
         /\ Len(Select(requests[r].log, "refresh")) = 1

\* two requests of one client were both re-sent after a refresh, and both
\* re-sends were answered 401
C11_Witness ==
  \E r1, r2 \in Requests :
    /\ r1 # r2
    /\ requests[r1].client = requests[r2].client
    /\ \A r \in {r1, r2} :
         /\ Len(Sends(r)) = 2
         /\ requests[r].state = "rejected"
         /\ requests[r].result.value.status = 401

\* client c ran a refresh in this step
Refreshed(c) == clients'[c].refreshes > clients[c].refreshes

\* C12: when a refresh succeeds with newToken, the token held by the context
\* (the one useAppContext returns and the next client is built from) becomes
\* newToken.
C12_RefreshUpdatesAuthState ==
  [][\A c \in 1..Len(clients) :
       Refreshed(c) => token' = Some(clients'[c].token)]_vars

\* C13 (as stated): in every reachable state of the context, after any
\* setToken, login and logout calls, isAuthenticated is true exactly when the
\* held token is not null.
C13_AuthenticatedIffNotNull == isAuthenticated <=> token # None

\* C13 (amended): in every reachable state of the context, isAuthenticated is
\* true exactly when the held token is neither null nor the empty string.
C13_AuthenticatedIffNonEmptyToken ==
  isAuthenticated <=> (token # None /\ token # Some(EmptyString))

\* the context holds the empty string, which setToken("") or login("") put
\* there, and isAuthenticated is false
C13_Witness == token = Some(EmptyString) /\ ~isAuthenticated

\* C14: after a refresh, the outcome of the re-sent request is what its caller
\* receives: a success response resolves the caller with that response, an
\* error of any status (a second 401 included) rejects the caller with that
\* error; no refresh error takes its place, no further refresh starts and no
\* other request is rejected by it.
C14_RetryOutcomeUnmodified ==
  /\ \A r \in Requests :
       LET l == requests[r].log
       IN \A i \in 1..Len(l) :
            /\ (l[i].op = "resolve" /\ l[i].val.attempt = 2) =>
                 /\ l[i].val = [kind |-> "response", status |-> 200, req |-> r,
                                attempt |-> 2]
                 /\ requests[r].state = "fulfilled"
                 /\ requests[r].result = Some(l[i].val)
                 /\ Select(l, "reject") = <<>>
            /\ (l[i].op = "error" /\ l[i].val.attempt = 2) =>
                 /\ i + 1 = Len(l)
                 /\ l[i + 1] = Event("reject", l[i].val)
                 /\ requests[r].state = "rejected"
                 /\ requests[r].result = Some(l[i].val)
                 /\ Len(Select(l, "refresh")) = 1
  /\ \A q \in Requests :
       LET l == requests[q].log
       IN /\ Select(l, "waiter_reject") = <<>>
          /\ \A i \in 1..Len(l) :
               l[i].op = "reject" =>
                 (l[i].val.kind = "error" /\ l[i].val.req = q /\ l[i - 1].val = l[i].val)

\* one re-sent request was answered 200 and resolved its caller, another was
\* answered 500 and rejected its caller
C14_Witness ==
  /\ \E r \in Requests :
       /\ requests[r].retry
       /\ requests[r].state = "fulfilled"
       /\ requests[r].result.value.attempt = 2
  /\ \E r \in Requests :
       /\ requests[r].retry
       /\ requests[r].state = "rejected"
       /\ requests[r].result.value.status = 500
       /\ requests[r].result.value.attempt = 2

\* C15: the axiosConfig a caller supplies to usePostData, usePutData,
\* useDeleteData or useUnauthenticatedPostData is applied to the request the
\* hook sends: every property of it is in the config of the request.
C15_AxiosConfigApplied ==
  \A r \in Requests :
    ClientOf(r).kind \in {"post", "put", "delete", "unauthenticatedPost"} =>
      \A p \in DOMAIN ClientOf(r).axiosConfig :
        /\ p \in DOMAIN requests[r].config
        /\ requests[r].config[p] = ClientOf(r).axiosConfig[p]

\* the closure state of client c: its token, its flag and its queue
Closure(c) == <<clients[c].token, clients[c].isRefreshing, clients[c].failedQueue,
                clients[c].refreshes>>

\* C16: the refresh flag, the queue and the token belong to one client: the
\* handling of a response of a request of one client leaves the flag, queue
\* and token of every other client unchanged, and a first 401 on a client with
\* refresh enabled starts that client's own refresh, whatever the other
\* clients have done; it is never queued.
C16_ClosureStatePerClient ==
  [][\A r \in 1..Len(requests) :
       requests'[r] # requests[r] =>
         /\ \A c \in 1..Len(clients) :
              c # requests[r].client => Closure(c)' = Closure(c)
         /\ (/\ clients[requests[r].client].enableRefreshToken
             /\ Len(requests'[r].log) > Len(requests[r].log)
             /\ requests'[r].log[Len(requests[r].log) + 1].op = "error"
             /\ requests'[r].log[Len(requests[r].log) + 1].val.status = 401
             /\ ~requests[r].retry) =>
              /\ Refreshed(requests[r].client)
              /\ requests'[r].state = "pending"
              /\ clients'[requests[r].client].token
                   = NewToken(clients[requests[r].client].token, clock')]_vars

\* two clients of two components were each refreshed once, each from its own
\* build token
C16_Witness ==
  \E c1, c2 \in 1..Len(clients) :
    /\ c1 # c2
    /\ \A c \in {c1, c2} :
         /\ clients[c].refreshes = 1
         /\ \E now \in 0..clock : clients[c].token = NewToken(clients[c].tokenArg, now)

\* the refreshes of client c that have begun and have not settled: the
\* requests whose handler has computed the refresh and has not yet re-sent
RefreshesInFlight(c) ==
  Cardinality({r \in Requests :
                 /\ requests[r].client = c
                 /\ requests[r].log[Len(requests[r].log)].op = "refresh"})

\* C17: in every reachable state of a client, at most one refresh is in
\* flight.
C17_AtMostOneRefreshInFlight ==
  \A c \in 1..Len(clients) : RefreshesInFlight(c) <= 1

\* one client has run two refreshes, for two requests
C17_Witness ==
  \E c \in 1..Len(clients) :
    /\ clients[c].refreshes = 2
    /\ \E r1, r2 \in Requests :
         /\ r1 # r2
         /\ \A r \in {r1, r2} :
              requests[r].client = c /\ Len(Select(requests[r].log, "refresh")) = 1

\* C18: in every reachable state of a client the flag is true exactly while a
\* refresh is in flight and the queue is non-empty only while the flag is
\* true; on an idle client the queue is empty and the next 401 of a request
\* not yet retried starts a new refresh.
C18_FlagAndQueue ==
  [][/\ \A c \in 1..Len(clients') :
          clients'[c].factory = "createApiClient" =>
            /\ clients'[c].isRefreshing <=> (RefreshesInFlight(c)' = 1)
            /\ clients'[c].failedQueue # <<>> => clients'[c].isRefreshing
            /\ ~clients'[c].isRefreshing => clients'[c].failedQueue = <<>>
     /\ \A r \in 1..Len(requests) :
          (/\ clients[requests[r].client].enableRefreshToken
           /\ ~clients[requests[r].client].isRefreshing
           /\ ~requests[r].retry
           /\ Len(requests'[r].log) > Len(requests[r].log)
           /\ requests'[r].log[Len(requests[r].log) + 1].op = "error"
           /\ requests'[r].log[Len(requests[r].log) + 1].val.status = 401) =>
             /\ Refreshed(requests[r].client)
             /\ Select(requests'[r].log, "enqueue") = <<>>]_vars

\* a client that has settled one refresh is idle with an empty queue, and a
\* second request of it, not yet retried, is on the wire
C18_Witness ==
  \E c \in 1..Len(clients) :
    /\ clients[c].refreshes = 1
    /\ ~clients[c].isRefreshing
    /\ clients[c].failedQueue = <<>>
    /\ \E r \in Requests :
         requests[r].client = c /\ ~requests[r].retry /\ requests[r].state = "pending"

\* C19: the token of the context changes only by setToken, login or logout:
\* a step that sends a request, receives a response, runs a refresh or re-sends
\* a request leaves it unchanged.
C19_AuthStateOnlyBySetters ==
  [][(\/ requests' # requests
      \/ clock' # clock
      \/ \E c \in 1..Len(clients) : Closure(c)' # Closure(c)) => token' = token]_vars

\* a client was refreshed and the context still holds the token the client was
\* built with
C19_Witness ==
  \E c \in 1..Len(clients) :
    /\ clients[c].refreshes = 1
    /\ clients[c].tokenArg # EmptyString
    /\ token = Some(clients[c].tokenArg)

\* C20: a request through a client of createUnauthenticatedApiClient is sent
\* exactly once and without Authorization header, whatever token the context
\* holds; every error response, a 401 included, is rejected to the caller as it
\* is: no refresh, no queue, no re-send.
C20_UnauthenticatedClient ==
  \A r \in Requests :
    ClientOf(r).factory = "createUnauthenticatedApiClient" =>
      LET l == requests[r].log
      IN /\ Len(Sends(r)) = 1
         /\ Sends(r)[1].val = None
         /\ ~requests[r].retry
         /\ \A i \in 1..Len(l) :
              /\ l[i].op \notin {"refresh", "enqueue", "retry_mark", "waiter_resolve",
                                 "waiter_reject"}
              /\ l[i].op = "error" =>
                   /\ i + 1 = Len(l)
                   /\ l[i + 1] = Event("reject", l[i].val)
                   /\ requests[r].state = "rejected"
                   /\ requests[r].result = Some(l[i].val)

\* the context holds a token and refresh is enabled; a request of
\* useUnauthenticatedPostData was answered 401 and rejected
C20_Witness ==
  /\ isAuthenticated
  /\ refreshToken
  /\ \E r \in Requests :
       /\ ClientOf(r).factory = "createUnauthenticatedApiClient"
       /\ requests[r].state = "rejected"
       /\ requests[r].result.value.status = 401

Settled(r) == requests[r].state \in {"fulfilled", "rejected"}

\* C21: if every send is answered in the end, every request issued through a
\* client settles to its caller in the end, resolved or rejected: it does not
\* stay queued and is not re-sent for ever.
C21_EveryRequestSettles ==
  \A r \in 1..MaxRequests :
    (r <= Len(requests)) ~> (r <= Len(requests) /\ Settled(r))

\* with refresh enabled, one request settled after its re-send and another
\* settled on its first answer
C21_Witness ==
  \E r1, r2 \in Requests :
    /\ ClientOf(r1).enableRefreshToken
    /\ requests[r1].client = requests[r2].client
    /\ Settled(r1) /\ Len(Sends(r1)) = 2
    /\ Settled(r2) /\ Len(Sends(r2)) = 1

\* C22: a client built with an empty token sends no Authorization header on
\* any request, a request re-sent after a refresh included.
C22_NoHeaderWithEmptyToken ==
  \A r \in Requests :
    (ClientOf(r).factory = "createApiClient" /\ ClientOf(r).tokenArg = EmptyString) =>
      \A i \in 1..Len(Sends(r)) : ~Sends(r)[i].val.present

\* the tokens the refreshes of client c have produced
RefreshedTokens(c) ==
  UNION {{requests[r].log[i].val :
            i \in {j \in 1..Len(requests[r].log) : requests[r].log[j].op = "refresh"}} :
         r \in {q \in Requests : requests[q].client = c}}

\* the newest of them: every refresh makes the token longer
NewestToken(c) ==
  CHOOSE t \in RefreshedTokens(c) : \A u \in RefreshedTokens(c) : Len(u) <= Len(t)

\* C23: after a refresh on a client, every request sent through it from then
\* on (a re-sent request as well as a new one) carries the newest refreshed
\* token, formatted by the client's bearer flag: "Bearer <token>" when the flag
\* is set, the raw token when it is not.
C23_NewestTokenAfterRefresh ==
  [][\A c \in 1..Len(clients), r \in 1..Len(requests') :
       (requests'[r].client = c /\ SentInStep(r) /\ clients'[c].refreshes >= 1) =>
         LastSend(r)'.val =
           Some(IF clients'[c].bearer THEN BearerPrefix \o NewestToken(c)'
                                      ELSE NewestToken(c)')]_vars

\* without the bearer flag, a request re-sent after a refresh and a request
\* first sent after it both carry the raw refreshed token
C23_Witness ==
  \E r1, r2 \in Requests :
    /\ requests[r1].client = requests[r2].client
    /\ ~ClientOf(r1).bearer
    /\ Len(Select(requests[r1].log, "refresh")) = 1
    /\ Len(Sends(r1)) = 2
    /\ Sends(r1)[2].val = Some(Select(requests[r1].log, "refresh")[1].val)
    /\ Sends(r2)[1].val = Sends(r1)[2].val
====
